---- MODULE Spec2Model ----
(***************************************************************************)
(* A model of the temporal display-state logic of UD-Viz:                  *)
(*   TemporalProvider.getTransactionStyleName  (style name of a            *)
(*       transaction, recursive over aggregates)                           *)
(*   TemporalProvider.culling                  (display state of every     *)
(*       feature of a batch table at currentTime)                          *)
(*   TemporalProvider.computeFeaturesStates, computeTileState,             *)
(*       changeTileState, changeVisibleTilesStates (the per date and tile  *)
(*       cache of display states and the styling of tiles)                 *)
(*   setTileVerticesColor                      (3DTilesUtils)              *)
(*                                                                         *)
(* TIME.  JavaScript numbers are modelled by integers counting TICKS of    *)
(* half a time unit: the date 10 is the tick 20, the time 1.5 is the tick  *)
(* 3.  Dates of features and transactions are whole time units (even       *)
(* ticks), so that the half duration (endDate - startDate) / 2 of the code *)
(* is an exact integer division; currentTime is any tick, so that it can   *)
(* sit exactly on startDate - 1.5, on endDate + 1.5 and on the midpoint of *)
(* a transaction.                                                          *)
(*                                                                         *)
(* STRINGS are TLA+ strings, '+' is \o.  INDICES: the JavaScript index i   *)
(* of a feature is the index i + 1 of the sequences of the model.          *)
(***************************************************************************)
EXTENDS Integers, Sequences, FiniteSets, TLC

VARIABLES
    pc,                     \* which call is pending / has returned
    currentTime,            \* TemporalProvider.currentTime (ticks)
    BT,                     \* argument of culling(BT)
    featuresDisplayStates,  \* array returned by culling
    pushedAt,               \* per feature: length of featuresDisplayStates
                            \* when its loop iteration starts (0-based slot
                            \* of its first label)
    transaction,            \* argument of getTransactionStyleName
    styleName,              \* accumulator argument of getTransactionStyleName
    returnedStyleName,      \* value returned by getTransactionStyleName
    temporalBatchTables,    \* temporalExtensionModel.temporalBatchTables
    datedTilesDisplayStates,\* the cache: date -> tile id -> display states
    registeredStyles,       \* names registered in the tilesManager
    tileLoadedListeners,    \* listeners of EVENT_TILE_LOADED in the order of
                            \* their registration
    tilesManagerCalls,      \* calls made to the tilesManager by the last
                            \* operation, in order
    lastOp,                 \* the last operation of the provider and its
                            \* argument
    lastCall,               \* the last direct call of computeFeaturesStates:
                            \* its arguments, what it returned, whether it
                            \* ran culling
    missed,                 \* history: tiles for which a call at the current
                            \* date found no batch table
    revisited,              \* history: tiles whose entry for the current
                            \* date was stored before the date last changed
    tile,                   \* argument of setTileVerticesColor (the mesh)
    newColor,               \* argument of setTileVerticesColor
    indexArray,             \* argument of setTileVerticesColor
    colorOutcome,           \* how setTileVerticesColor ended
    controller,             \* the fields of the TemporalController
    scene,                  \* view.scene: the building versions it holds
    controllerOutcome,      \* the last call on the controller and whether
                            \* it threw
    tileMesh,               \* the mesh of the tile given to createTileGroups
    ranges,                 \* argument of createTileGroups (sorted in place)
    givenRanges             \* history: ranges as the caller passed it

cullingVars == <<BT, featuresDisplayStates, pushedAt>>

styleNameVars == <<transaction, styleName, returnedStyleName>>

providerVars == <<temporalBatchTables, datedTilesDisplayStates,
                  registeredStyles, tileLoadedListeners, tilesManagerCalls,
                  lastOp, lastCall, missed, revisited>>

colorVars == <<tile, newColor, indexArray, colorOutcome>>

controllerVars == <<controller, scene, controllerOutcome>>

tileGroupsVars == <<tileMesh, ranges, givenRanges>>

vars == <<pc, currentTime, cullingVars, styleNameVars, providerVars,
          colorVars, controllerVars, tileGroupsVars>>

----------------------------------------------------------------------------
(* Bounds of the explored inputs *)

\* dates of the generated features and transactions: 0 .. MaxDate time units
MaxDate == 2
\* longest batch table built from the sample features
MaxFeatures == 2
\* most nested transactions of one aggregate
MaxNested == 2

\* vertices of a tile, at most
MaxVertices == 3

----------------------------------------------------------------------------
(* JavaScript values *)

\* the value of a missing property (asSource, asDestination)
undefined == [undefined |-> TRUE]

\* what `string + undefined` appends, and the label standing for an
\* undefined array entry (no transaction type is spelled like this)
undefinedString == "undefined"

----------------------------------------------------------------------------
(* getTransactionStyleName *)

RECURSIVE getTransactionStyleName(_, _)
RECURSIVE aggregateLoop(_, _, _)
RECURSIVE aggregateLoopOverwrite(_, _, _)
RECURSIVE aggregateLoopFresh(_, _, _)

\* aggregateLoop with a fault: each round overwrites the name with the prefix
\* and the nested name instead of appending to it
aggregateLoopOverwrite(transac, i, name) ==
    IF i > Len(transac.transactions) THEN name
    ELSE aggregateLoopOverwrite(transac, i + 1,
            "aggregate" \o "-" \o
                getTransactionStyleName(transac.transactions[i], name))

\* aggregateLoop with a fault: a nested transaction is resolved from the
\* empty name, not from the accumulator
aggregateLoopFresh(transac, i, name) ==
    IF i > Len(transac.transactions) THEN name
    ELSE aggregateLoopFresh(transac, i + 1,
            name \o "-" \o getTransactionStyleName(transac.transactions[i], ""))

\* the for loop of lines 93-96, from index i on, with accumulator name
aggregateLoop(transac, i, name) ==
    IF i > Len(transac.transactions) THEN name
    ELSE aggregateLoop(transac, i + 1,
            name \o "-" \o getTransactionStyleName(transac.transactions[i], name))

\* getTransactionStyleName with a fault: a primary transaction reached
\* with a non-empty accumulator returns the accumulator extended by its type
getTransactionStyleNameAccumulating(transac, name) ==
    IF transac.isPrimary
    THEN IF name = "" THEN transac.type ELSE name \o "-" \o transac.type
    ELSE IF transac.isAggregate
         THEN aggregateLoop(transac, 1, IF name = "" THEN "aggregate" ELSE name)
         ELSE undefinedString

\* lines 89-101
getTransactionStyleName(transac, name) ==
    IF transac.isPrimary THEN transac.type
    ELSE IF transac.isAggregate
         THEN aggregateLoop(transac, 1, IF name = "" THEN "aggregate" ELSE name)
         ELSE undefinedString

----------------------------------------------------------------------------
(* culling *)

\* const halfVintage = 1.5 (three ticks of half a time unit)
halfVintage == 3

\* featureExists with a fault: the endDate is excluded from the lifespan
featureExistsBeforeEnd(bt, i, t) ==
    t >= bt.startDates[i] /\ t < bt.endDates[i]

\* featuresDisplayStates.push('noTransaction') is taken: lines 121-122
featureExists(bt, i, t) ==
    t >= bt.startDates[i] /\ t <= bt.endDates[i]

\* hasTransacRecord with a fault: a record holding no transaction counts as
\* no record
hasTransacRecordWithTransac(bt, i) ==
    /\ bt.featureIds[i] \in DOMAIN bt.featuresTransacs
    /\ \/ bt.featuresTransacs[bt.featureIds[i]].asSource # undefined
       \/ bt.featuresTransacs[bt.featureIds[i]].asDestination # undefined

\* truthiness of BT.featuresTransacs[featureId]: line 125
hasTransacRecord(bt, i) ==
    bt.featureIds[i] \in DOMAIN bt.featuresTransacs

\* (transac.endDate - transac.startDate) / 2: lines 130-131 and 141-142
transacHalfDuration(transac) ==
    (transac.endDate - transac.startDate) \div 2

\* inFirstHalf with a fault: the startDate is included
inFirstHalfFromStart(transac, t) ==
    t >= transac.startDate /\
    t <= transac.startDate + transacHalfDuration(transac)

\* inFirstHalf with a fault: the window runs to the endDate
inFirstHalfToEnd(transac, t) ==
    t > transac.startDate /\ t <= transac.endDate

\* the condition of lines 132-133
inFirstHalf(transac, t) ==
    t > transac.startDate /\
    t <= transac.startDate + transacHalfDuration(transac)

\* inSecondHalf with a fault: the midpoint is included
inSecondHalfFromMidpoint(transac, t) ==
    t >= transac.startDate + transacHalfDuration(transac) /\
    t <= transac.endDate

\* the condition of lines 143-145
inSecondHalf(transac, t) ==
    t > transac.startDate + transacHalfDuration(transac) /\
    t <= transac.endDate

\* pushAsSource with a fault: a transaction without a style name pushes
\* nothing
pushAsSourceNamedOnly(record, t) ==
    LET transacAsSource == record.asSource IN
    IF /\ transacAsSource # undefined
       /\ inFirstHalf(transacAsSource, t)
       /\ getTransactionStyleName(transacAsSource, "") # undefinedString
    THEN <<getTransactionStyleName(transacAsSource, "")>>
    ELSE <<>>

\* the labels pushed by lines 128-138 (none or one)
pushAsSource(record, t) ==
    LET transacAsSource == record.asSource IN
    IF transacAsSource # undefined /\ inFirstHalf(transacAsSource, t)
    THEN <<getTransactionStyleName(transacAsSource, "")>>
    ELSE <<>>

\* the labels pushed by lines 139-150 (none or one)
pushAsDest(record, t) ==
    LET transacAsDest == record.asDestination IN
    IF transacAsDest # undefined /\ inSecondHalf(transacAsDest, t)
    THEN <<getTransactionStyleName(transacAsDest, "")>>
    ELSE <<>>

\* the labels pushed by the TRANSACTION CASE, lines 126-155
transactionCase(record, t) ==
    LET fromSource == pushAsSource(record, t)
        fromDest   == pushAsDest(record, t)
        hasTransac == fromSource # <<>> \/ fromDest # <<>>
    IN  fromSource \o fromDest \o (IF ~hasTransac THEN <<"hide">> ELSE <<>>)

\* inCreationVintage with a fault: startDate - halfVintage is excluded
inCreationVintageStrict(bt, i, t) ==
    t + halfVintage > bt.startDates[i] /\ t < bt.startDates[i]

\* the condition of lines 165-166
inCreationVintage(bt, i, t) ==
    t + halfVintage >= bt.startDates[i] /\ t < bt.startDates[i]

\* inDemolitionVintage with a fault: endDate + halfVintage is included
inDemolitionVintageInclusive(bt, i, t) ==
    t - halfVintage <= bt.endDates[i] /\ t > bt.endDates[i]

\* the condition of lines 169-170
inDemolitionVintage(bt, i, t) ==
    t - halfVintage < bt.endDates[i] /\ t > bt.endDates[i]

\* vintageCase with a fault: the final else labels the feature as existing
vintageCaseShown(bt, i, t) ==
    IF inCreationVintage(bt, i, t) THEN <<"creation">>
    ELSE IF inDemolitionVintage(bt, i, t) THEN <<"demolition">>
    ELSE <<"noTransaction">>

\* the labels pushed when there is no transaction record, lines 157-176
vintageCase(bt, i, t) ==
    IF inCreationVintage(bt, i, t) THEN <<"creation">>
    ELSE IF inDemolitionVintage(bt, i, t) THEN <<"demolition">>
    ELSE <<"hide">>

\* the labels pushed by one iteration of the loop, lines 120-177
cullingFeature(bt, i, t) ==
    IF featureExists(bt, i, t) THEN <<"noTransaction">>
    ELSE IF hasTransacRecord(bt, i)
         THEN transactionCase(bt.featuresTransacs[bt.featureIds[i]], t)
         ELSE vintageCase(bt, i, t)

RECURSIVE cullingLoop(_, _, _, _)
\* the for loop of lines 119-178 from feature i on; states is the array so far
cullingLoop(bt, t, i, states) ==
    IF i > Len(bt.featureIds) THEN states
    ELSE cullingLoop(bt, t, i + 1, states \o cullingFeature(bt, i, t))

\* culling(BT) with this.currentTime = t
culling(bt, t) == cullingLoop(bt, t, 1, <<>>)

RECURSIVE lengthBefore(_, _, _)
\* featuresDisplayStates.length when the iteration of feature i starts
lengthBefore(bt, t, i) ==
    IF i = 1 THEN 0
    ELSE lengthBefore(bt, t, i - 1) + Len(cullingFeature(bt, i - 1, t))

----------------------------------------------------------------------------
(* Inputs: transactions *)

\* all sequences over S of length 0 .. n
SeqsUpTo(S, n) == UNION {[1..m -> S] : m \in 0..n}

\* a primary transaction of the given type (dates left out)
PrimaryShape(type) ==
    [isPrimary |-> TRUE, isAggregate |-> FALSE, type |-> type,
     transactions |-> <<>>]

\* an aggregate transaction of the given nested transactions
AggregateShape(nested) ==
    [isPrimary |-> FALSE, isAggregate |-> TRUE, type |-> "",
     transactions |-> nested]

\* a transaction that is neither primary nor aggregate
MalformedShape ==
    [isPrimary |-> FALSE, isAggregate |-> FALSE, type |-> "",
     transactions |-> <<>>]

\* a transaction of the given shape active on [s, e] (ticks)
Transac(shape, s, e) ==
    [isPrimary |-> shape.isPrimary, isAggregate |-> shape.isAggregate,
     type |-> shape.type, transactions |-> shape.transactions,
     startDate |-> s, endDate |-> e]

Types == {"creation", "demolition"}

PrimaryTransactions == {PrimaryShape(ty) : ty \in Types}

\* aggregates whose nested transactions are all primary
AggregatesOfPrimaries ==
    {AggregateShape(n) : n \in SeqsUpTo(PrimaryTransactions, MaxNested)}

\* aggregates of primary and malformed transactions
AggregatesOfLeaves ==
    {AggregateShape(n) :
        n \in SeqsUpTo(PrimaryTransactions \cup {MalformedShape}, MaxNested)}

\* aggregates nesting primaries and aggregates of primaries
NestedAggregates ==
    {AggregateShape(n) :
        n \in SeqsUpTo(PrimaryTransactions \cup AggregatesOfPrimaries, MaxNested)}

\* the transactions getTransactionStyleName is applied to
StyleNameInputs ==
    PrimaryTransactions \cup {MalformedShape} \cup AggregatesOfLeaves
        \cup NestedAggregates

\* the accumulators it is called with ('' by culling; the others are the
\* values a recursive call receives)
Accumulators == {"", "aggregate", "aggregate-creation"}

----------------------------------------------------------------------------
(* Inputs: batch tables *)

\* the feature at JavaScript index i - 1 has the id 10 * i
FeatureIdAt(i) == 10 * i

\* a feature: its lifespan and its entry in featuresTransacs (undefined when
\* it has none)
Feature(s, e, record) == [startDate |-> s, endDate |-> e, record |-> record]

TransacRecord(asSource, asDestination) ==
    [asSource |-> asSource, asDestination |-> asDestination]

\* the batch table of a sequence of features: parallel arrays and the
\* featuresTransacs object keyed by feature id
BatchTable(features) ==
    LET n == Len(features)
        withRecord == {i \in 1..n : features[i].record # undefined}
    IN  [featureIds  |-> [i \in 1..n |-> FeatureIdAt(i)],
         startDates  |-> [i \in 1..n |-> features[i].startDate],
         endDates    |-> [i \in 1..n |-> features[i].endDate],
         featuresTransacs |->
            [id \in {FeatureIdAt(i) : i \in withRecord} |->
                features[CHOOSE i \in withRecord : FeatureIdAt(i) = id].record]]

\* whole time units 0 .. MaxDate, in ticks
Dates == {2 * d : d \in 0..MaxDate}

\* [start, end] with start <= end
Windows == {w \in Dates \X Dates : w[1] <= w[2]}

GeneratedShapes ==
    {PrimaryShape("creation"),
     AggregateShape(<<PrimaryShape("creation"), PrimaryShape("demolition")>>)}

GeneratedTransacs ==
    {Transac(sh, w[1], w[2]) : sh \in GeneratedShapes, w \in Windows}

GeneratedRecords ==
    {undefined} \cup
    {TransacRecord(a, b) : a \in GeneratedTransacs \cup {undefined},
                           b \in GeneratedTransacs \cup {undefined}}

GeneratedFeatures ==
    {Feature(w[1], w[2], r) : w \in Windows, r \in GeneratedRecords}

\* the one-feature batch tables over the generated features
GeneratedTables == {BatchTable(<<f>>) : f \in GeneratedFeatures}

\* every tick from before the creation vintage of date 0 to after the
\* demolition vintage of date MaxDate
GeneratedTimes == (0 - halfVintage - 1) .. (2 * MaxDate + halfVintage + 1)

\* the primary transaction of type "creation" active on [10, 20]
Creation1020 == Transac(PrimaryShape("creation"), 20, 40)

\* the features of the documented scenarios, and features with transactions
\* of two roles, of an aggregate, and of no kind
SampleFeatures ==
    {Feature(0, 20, undefined),                                \* [0, 10]
     Feature(0, 10, undefined),                                \* [0, 5]
     Feature(0, 18, TransacRecord(Creation1020, undefined)),   \* source
     Feature(42, 60, TransacRecord(undefined, Creation1020)),  \* destination
     Feature(0, 18, TransacRecord(
        Transac(PrimaryShape("modification"), 28, 40),
        Transac(AggregateShape(<<PrimaryShape("creation"),
                                 PrimaryShape("demolition")>>), 20, 40))),
     Feature(0, 18, TransacRecord(Transac(MalformedShape, 20, 40), undefined))}

SampleTables == {BatchTable(fs) : fs \in SeqsUpTo(SampleFeatures, MaxFeatures)}

\* every tick of the times -2 .. 21
SampleTimes == (0 - 4) .. 42

----------------------------------------------------------------------------
(* The parts of the state a specification does not use *)

\* no call of the provider has been made
NoCall == [tileId |-> 0 - 1]

\* no operation of the provider has run
NoOp == [op |-> "none"]

CullingIdle ==
    /\ BT = BatchTable(<<>>)
    /\ featuresDisplayStates = <<>>
    /\ pushedAt = <<>>

StyleNameIdle ==
    /\ transaction = MalformedShape
    /\ styleName = ""
    /\ returnedStyleName = ""

ProviderIdle ==
    /\ temporalBatchTables = <<>>
    /\ datedTilesDisplayStates = <<>>
    /\ registeredStyles = {}
    /\ tileLoadedListeners = <<>>
    /\ tilesManagerCalls = <<>>
    /\ lastOp = NoOp
    /\ lastCall = NoCall
    /\ missed = {}
    /\ revisited = {}

ColorIdle ==
    /\ tile = <<>>
    /\ newColor = 0
    /\ indexArray = <<>>
    /\ colorOutcome = "idle"

ControllerIdle ==
    /\ controller = <<>>
    /\ scene = {}
    /\ controllerOutcome = <<>>

TileGroupsIdle ==
    /\ tileMesh = <<>>
    /\ ranges = <<>>
    /\ givenRanges = <<>>

----------------------------------------------------------------------------
(* The calls *)

\* this.currentTime and the argument are set; culling(BT) is called
InitCulling ==
    /\ pc = "culling"
    /\ \/ BT \in GeneratedTables /\ currentTime \in GeneratedTimes
       \/ BT \in SampleTables /\ currentTime \in SampleTimes
    /\ featuresDisplayStates = <<>>
    /\ pushedAt = <<>>
    /\ StyleNameIdle
    /\ ProviderIdle
    /\ ColorIdle
    /\ ControllerIdle
    /\ TileGroupsIdle

\* culling(BT) runs and returns featuresDisplayStates
Culling ==
    /\ pc = "culling"
    /\ pc' = "culled"
    /\ featuresDisplayStates' = culling(BT, currentTime)
    /\ pushedAt' = [i \in 1..Len(BT.featureIds) |->
                        lengthBefore(BT, currentTime, i)]
    /\ UNCHANGED <<currentTime, BT, styleNameVars, providerVars, colorVars,
                   controllerVars, tileGroupsVars>>

NextCulling == Culling

SpecCulling == InitCulling /\ [][NextCulling]_vars

\* getTransactionStyleName(transaction, styleName) is called
InitStyleName ==
    /\ pc = "naming"
    /\ transaction \in StyleNameInputs
    /\ styleName \in Accumulators
    /\ returnedStyleName = ""
    /\ currentTime = 0
    /\ CullingIdle
    /\ ProviderIdle
    /\ ColorIdle
    /\ ControllerIdle
    /\ TileGroupsIdle

\* getTransactionStyleName runs and returns
GetTransactionStyleName ==
    /\ pc = "naming"
    /\ pc' = "named"
    /\ returnedStyleName' = getTransactionStyleName(transaction, styleName)
    /\ UNCHANGED <<currentTime, transaction, styleName, cullingVars,
                   providerVars, colorVars, controllerVars, tileGroupsVars>>

NextStyleName == GetTransactionStyleName

SpecStyleName == InitStyleName /\ [][NextStyleName]_vars

----------------------------------------------------------------------------
(* The tilesManager and the temporal extension model, as the provider uses
   them *)

\* tilesManager.registerStyle(name, style): the name becomes registered
registerStyle(registered, name) == registered \cup {name}

\* tilesManager.isStyleRegistered(name)
isStyleRegistered(registered, name) == name \in registered

\* initTransactionsStyles: lines 50-66
initTransactionsStyles ==
    registerStyle(registerStyle(registerStyle(registerStyle(registerStyle({},
        "noTransaction"), "creation"), "demolition"), "modification"), "hide")

\* tilesManager.setStyle(new CityObjectID(tileId, batchId), style)
SetStyleCall(tileId, batchId, style) ==
    [fn |-> "setStyle", tileId |-> tileId, batchId |-> batchId,
     style |-> style, updateView |-> FALSE]

\* tilesManager.applyStyleToTile(tileId, { updateView: false })
ApplyStyleToTileCall(tileId) ==
    [fn |-> "applyStyleToTile", tileId |-> tileId, batchId |-> 0 - 1,
     style |-> "", updateView |-> FALSE]

\* tilesManager.applyStyles()
ApplyStylesCall ==
    [fn |-> "applyStyles", tileId |-> 0 - 1, batchId |-> 0 - 1,
     style |-> "", updateView |-> FALSE]

\* the tiles of the layer: the root tile 0 and the tiles 1 and 2
TileIds == {0, 1, 2}

\* a feature that is the source of a creation on [10, 20], a feature that is
\* source of a modification on [14, 20] and destination of an aggregate on
\* [10, 20], and a feature that is the source of a malformed transaction on
\* [10, 20], and a feature that is the destination of such a transaction; all
\* four live on [0, 9]
TransactionsTable ==
    BatchTable(<<
        Feature(0, 18, TransacRecord(Creation1020, undefined)),
        Feature(0, 18, TransacRecord(
            Transac(PrimaryShape("modification"), 28, 40),
            Transac(AggregateShape(<<PrimaryShape("creation"),
                                     PrimaryShape("demolition")>>), 20, 40))),
        Feature(0, 18, TransacRecord(Transac(MalformedShape, 20, 40),
                                     undefined)),
        Feature(0, 18, TransacRecord(undefined,
                                     Transac(MalformedShape, 20, 40)))>>)

\* two features without transactions, living on [0, 10] and on [0, 5]
LifespansTable ==
    BatchTable(<<Feature(0, 20, undefined), Feature(0, 10, undefined)>>)

\* the temporal batch table that loading a tile brings
TileContent(tileId) ==
    IF tileId = 1 THEN TransactionsTable
    ELSE IF tileId = 2 THEN LifespansTable
    ELSE BatchTable(<<Feature(0, 20, undefined)>>)

\* the dates the provider is set to: 11 and 16
ProviderTimes == {22, 32}

\* style names a deployment registers besides the five of the provider
ExtraStyles == {"aggregate-creation-demolition"}

\* what getVisibleTiles(layer) can return: tiles in any order, none twice
VisibleLists ==
    {tiles \in SeqsUpTo(TileIds, Cardinality(TileIds)) :
        \A i, j \in 1..Len(tiles) : i # j => tiles[i] # tiles[j]}

\* temporalExtensionModel.updateTileExtensionModel(tile): the batch table of
\* the tile is stored under its id
updateTileExtensionModel(bts, tileId) ==
    [id \in DOMAIN bts \cup {tileId} |->
        IF id = tileId THEN TileContent(tileId) ELSE bts[id]]

----------------------------------------------------------------------------
(* computeFeaturesStates and the cache *)

\* cacheHas with a fault: the entry is never found
cacheHasNever(cache, t, tileId) == FALSE

\* datedTilesDisplayStates.has(t) && datedTilesDisplayStates.get(t).has(tileId)
cacheHas(cache, t, tileId) ==
    t \in DOMAIN cache /\ tileId \in DOMAIN cache[t]

\* withDate with a fault: the map of date t is replaced by an empty one even
\* when there is one
withDateFresh(cache, t) ==
    [d \in DOMAIN cache \cup {t} |-> IF d = t THEN <<>> ELSE cache[d]]

\* lines 193-195: the map of date t, created empty when there is none
withDate(cache, t) ==
    IF t \in DOMAIN cache THEN cache
    ELSE [d \in DOMAIN cache \cup {t} |-> IF d = t THEN <<>> ELSE cache[d]]

\* line 197: datedTilesDisplayStates.get(t).set(tileId, states)
cacheSet(cache, t, tileId, states) ==
    [cache EXCEPT ![t] =
        [id \in DOMAIN cache[t] \cup {tileId} |->
            IF id = tileId THEN states ELSE cache[t][id]]]

\* computeFeaturesStates with a fault: the root tile is not skipped
computeFeaturesStatesOfAnyTile(cache, bts, t, tileId) ==
    IF cacheHas(cache, t, tileId)
    THEN [states |-> cache[t][tileId], cache |-> cache, culled |-> FALSE]
    ELSE IF tileId \in DOMAIN bts
    THEN LET states == culling(bts[tileId], t) IN
         [states |-> states,
          cache |-> cacheSet(withDate(cache, t), t, tileId, states),
          culled |-> TRUE]
    ELSE [states |-> <<>>, cache |-> cache, culled |-> FALSE]

\* computeFeaturesStates with a fault: the map of the current date is created
\* before the batch table is looked for
computeFeaturesStatesDateFirst(cache, bts, t, tileId) ==
    IF tileId = 0
    THEN [states |-> <<>>, cache |-> cache, culled |-> FALSE]
    ELSE IF cacheHas(cache, t, tileId)
    THEN [states |-> cache[t][tileId], cache |-> cache, culled |-> FALSE]
    ELSE IF tileId \in DOMAIN bts
    THEN LET states == culling(bts[tileId], t) IN
         [states |-> states,
          cache |-> cacheSet(withDate(cache, t), t, tileId, states),
          culled |-> TRUE]
    ELSE [states |-> <<>>, cache |-> withDate(cache, t), culled |-> FALSE]

\* computeFeaturesStates with a fault: an entry of the tile stored under any
\* date is taken for the entry of the current date
computeFeaturesStatesOfAnyDate(cache, bts, t, tileId) ==
    IF tileId = 0
    THEN [states |-> <<>>, cache |-> cache, culled |-> FALSE]
    ELSE IF \E d \in DOMAIN cache : tileId \in DOMAIN cache[d]
    THEN [states |->
            cache[CHOOSE d \in DOMAIN cache : tileId \in DOMAIN cache[d]][tileId],
          cache |-> cache, culled |-> FALSE]
    ELSE IF tileId \in DOMAIN bts
    THEN LET states == culling(bts[tileId], t) IN
         [states |-> states,
          cache |-> cacheSet(withDate(cache, t), t, tileId, states),
          culled |-> TRUE]
    ELSE [states |-> <<>>, cache |-> cache, culled |-> FALSE]

\* computeFeaturesStates(tileId) with this.currentTime = t: the returned
\* states, the cache afterwards, and whether culling ran
computeFeaturesStates(cache, bts, t, tileId) ==
    IF tileId = 0
    THEN [states |-> <<>>, cache |-> cache, culled |-> FALSE]
    ELSE IF cacheHas(cache, t, tileId)
    THEN [states |-> cache[t][tileId], cache |-> cache, culled |-> FALSE]
    ELSE IF tileId \in DOMAIN bts
    THEN LET states == culling(bts[tileId], t) IN
         [states |-> states,
          cache |-> cacheSet(withDate(cache, t), t, tileId, states),
          culled |-> TRUE]
    ELSE [states |-> <<>>, cache |-> cache, culled |-> FALSE]

----------------------------------------------------------------------------
(* computeTileState, changeTileState, changeVisibleTilesStates *)

\* setStyleCalls with a fault: the name is passed on without asking whether
\* it is registered
setStyleCallsUnchecked(tileId, featuresStates, registered) ==
    [i \in 1..Len(featuresStates) |->
        SetStyleCall(tileId, i - 1, featuresStates[i])]

\* lines 209-220: one setStyle call per entry of featuresStates
setStyleCalls(tileId, featuresStates, registered) ==
    [i \in 1..Len(featuresStates) |->
        IF isStyleRegistered(registered, featuresStates[i])
        THEN SetStyleCall(tileId, i - 1, featuresStates[i])
        ELSE SetStyleCall(tileId, i - 1, "noTransaction")]

\* computeTileState(tileContent): the calls made and the cache afterwards
computeTileState(cache, bts, registered, t, tileId) ==
    LET computed == computeFeaturesStates(cache, bts, t, tileId) IN
    [calls |-> setStyleCalls(tileId, computed.states, registered),
     cache |-> computed.cache]

\* changeTileState with a fault: applyStyleToTile is called only when a style
\* has been set
changeTileStateWhenStyled(cache, bts, registered, t, tileId) ==
    LET computed == computeTileState(cache, bts, registered, t, tileId) IN
    [calls |-> IF computed.calls = <<>> THEN <<>>
               ELSE computed.calls \o <<ApplyStyleToTileCall(tileId)>>,
     cache |-> computed.cache]

\* changeTileState(tileContent)
changeTileState(cache, bts, registered, t, tileId) ==
    LET computed == computeTileState(cache, bts, registered, t, tileId) IN
    [calls |-> computed.calls \o <<ApplyStyleToTileCall(tileId)>>,
     cache |-> computed.cache]

RECURSIVE visibleTilesLoopApplying(_, _, _, _, _, _, _)
\* visibleTilesLoop with a fault: applyStyles is called after each tile
visibleTilesLoopApplying(cache, bts, registered, t, tiles, i, calls) ==
    IF i > Len(tiles) THEN [calls |-> calls, cache |-> cache]
    ELSE LET computed ==
                computeTileState(cache, bts, registered, t, tiles[i])
         IN  visibleTilesLoopApplying(computed.cache, bts, registered, t,
                tiles, i + 1,
                calls \o computed.calls \o <<ApplyStylesCall>>)

RECURSIVE visibleTilesLoop(_, _, _, _, _, _, _)
\* the for loop of lines 231-233 from tiles[i] on
visibleTilesLoop(cache, bts, registered, t, tiles, i, calls) ==
    IF i > Len(tiles) THEN [calls |-> calls, cache |-> cache]
    ELSE LET computed ==
                computeTileState(cache, bts, registered, t, tiles[i])
         IN  visibleTilesLoop(computed.cache, bts, registered, t, tiles,
                              i + 1, calls \o computed.calls)

\* changeVisibleTilesStates() when getVisibleTiles returns tiles
changeVisibleTilesStates(cache, bts, registered, t, tiles) ==
    LET looped == visibleTilesLoop(cache, bts, registered, t, tiles, 1, <<>>)
    IN  [calls |-> looped.calls \o <<ApplyStylesCall>>,
         cache |-> looped.cache]

----------------------------------------------------------------------------
(* The provider *)

\* tilesManager.addEventListener(EVENT_TILE_LOADED, callback); the entry
\* keeps, as history, the names that were registered at that moment
addEventListener(listeners, callback, registered) ==
    Append(listeners, [callback |-> callback, registeredThen |-> registered])

\* constructorSteps with a fault: the three statements in the opposite order
constructorStepsReversed ==
    <<"changeTileState", "updateTileExtensionModel", "initTransactionsStyles">>

\* the statements of the constructor that act on the tilesManager, in the
\* order of the source: line 31, lines 38-41, lines 45-47
constructorSteps ==
    <<"initTransactionsStyles", "updateTileExtensionModel", "changeTileState">>

RECURSIVE constructorFrom(_, _, _)
\* the constructor from its statement k on
constructorFrom(k, registered, listeners) ==
    IF k > Len(constructorSteps)
    THEN [registered |-> registered, listeners |-> listeners]
    ELSE IF constructorSteps[k] = "initTransactionsStyles"
    THEN constructorFrom(k + 1, initTransactionsStyles, listeners)
    ELSE constructorFrom(k + 1, registered,
            addEventListener(listeners, constructorSteps[k], registered))

RECURSIVE dispatchTileLoaded(_, _, _, _, _, _)
\* the tilesManager dispatches EVENT_TILE_LOADED for the tile: the listeners
\* run in the order of their registration, from the listener k on; reached
\* holds the batch tables, the cache and the calls made so far
dispatchTileLoaded(listeners, k, reached, registered, t, tileId) ==
    IF k > Len(listeners) THEN reached
    ELSE IF listeners[k].callback = "updateTileExtensionModel"
    THEN dispatchTileLoaded(listeners, k + 1,
            [reached EXCEPT !.bts = updateTileExtensionModel(reached.bts,
                                                             tileId)],
            registered, t, tileId)
    ELSE LET changed == changeTileState(reached.cache, reached.bts,
                                        registered, t, tileId)
         IN  dispatchTileLoaded(listeners, k + 1,
                [bts |-> reached.bts, cache |-> changed.cache,
                 calls |-> reached.calls \o changed.calls],
                registered, t, tileId)

\* new TemporalProvider(temporalExtensionModel, tilesManager, currentTime)
Init ==
    /\ pc = "provider"
    /\ currentTime \in ProviderTimes
    /\ temporalBatchTables = <<>>
    /\ datedTilesDisplayStates = <<>>
    /\ registeredStyles = constructorFrom(1, {}, <<>>).registered
    /\ tileLoadedListeners = constructorFrom(1, {}, <<>>).listeners
    /\ tilesManagerCalls = <<>>
    /\ lastOp = NoOp
    /\ lastCall = NoCall
    /\ missed = {}
    /\ revisited = {}
    /\ CullingIdle
    /\ StyleNameIdle
    /\ ColorIdle
    /\ ControllerIdle
    /\ TileGroupsIdle

\* a step of the provider leaves the rest of the state alone
ProviderStep ==
    /\ pc = "provider"
    /\ UNCHANGED <<pc, cullingVars, styleNameVars, colorVars,
                   controllerVars, tileGroupsVars, tileLoadedListeners>>

\* a caller sets provider.currentTime to another date
SetCurrentTime(t) ==
    /\ ProviderStep
    /\ t # currentTime
    /\ currentTime' = t
    /\ tilesManagerCalls' = <<>>
    /\ lastOp' = [op |-> "setCurrentTime", tiles |-> <<>>]
    /\ lastCall' = NoCall
    /\ missed' = {}
    /\ revisited' = IF t \in DOMAIN datedTilesDisplayStates
                    THEN DOMAIN datedTilesDisplayStates[t] ELSE {}
    /\ UNCHANGED <<temporalBatchTables, datedTilesDisplayStates,
                   registeredStyles>>

\* a deployment registers one more style
RegisterStyle(name) ==
    /\ ProviderStep
    /\ ~isStyleRegistered(registeredStyles, name)
    /\ registeredStyles' = registerStyle(registeredStyles, name)
    /\ tilesManagerCalls' = <<>>
    /\ lastOp' = [op |-> "registerStyle", tiles |-> <<>>]
    /\ lastCall' = NoCall
    /\ UNCHANGED <<currentTime, temporalBatchTables, datedTilesDisplayStates,
                   missed, revisited>>

\* provider.computeFeaturesStates(tileId) is called
ComputeFeaturesStates(tileId) ==
    LET computed == computeFeaturesStates(datedTilesDisplayStates,
                        temporalBatchTables, currentTime, tileId)
    IN  /\ ProviderStep
        /\ datedTilesDisplayStates' = computed.cache
        /\ lastCall' = [tileId |-> tileId, time |-> currentTime,
                        states |-> computed.states,
                        culled |-> computed.culled,
                        afterMiss |-> tileId \in missed,
                        revisit |-> tileId \in revisited]
        /\ missed' = IF tileId # 0 /\ computed.states = <<>>
                        /\ tileId \notin DOMAIN temporalBatchTables
                     THEN missed \cup {tileId} ELSE missed
        /\ tilesManagerCalls' = <<>>
        /\ lastOp' = [op |-> "computeFeaturesStates", tiles |-> <<tileId>>]
        /\ UNCHANGED <<currentTime, temporalBatchTables, registeredStyles,
                       revisited>>

\* EVENT_TILE_LOADED for the tile: the listeners run in the order of their
\* registration
TileLoaded(tileId) ==
    LET changed == dispatchTileLoaded(tileLoadedListeners, 1,
                        [bts |-> temporalBatchTables,
                         cache |-> datedTilesDisplayStates, calls |-> <<>>],
                        registeredStyles, currentTime, tileId)
    IN  /\ ProviderStep
        /\ temporalBatchTables' = changed.bts
        /\ datedTilesDisplayStates' = changed.cache
        /\ tilesManagerCalls' = changed.calls
        /\ lastOp' = [op |-> "tileLoaded", tiles |-> <<tileId>>]
        /\ lastCall' = NoCall
        /\ UNCHANGED <<currentTime, registeredStyles, missed, revisited>>

\* provider.changeTileState(tile) is called
ChangeTileState(tileId) ==
    LET changed == changeTileState(datedTilesDisplayStates,
                        temporalBatchTables, registeredStyles, currentTime,
                        tileId)
    IN  /\ ProviderStep
        /\ datedTilesDisplayStates' = changed.cache
        /\ tilesManagerCalls' = changed.calls
        /\ lastOp' = [op |-> "changeTileState", tiles |-> <<tileId>>]
        /\ lastCall' = NoCall
        /\ UNCHANGED <<currentTime, temporalBatchTables, registeredStyles,
                       missed, revisited>>

\* provider.changeVisibleTilesStates() is called while the given tiles are
\* visible
ChangeVisibleTilesStates(tiles) ==
    LET changed == changeVisibleTilesStates(datedTilesDisplayStates,
                        temporalBatchTables, registeredStyles, currentTime,
                        tiles)
    IN  /\ ProviderStep
        /\ datedTilesDisplayStates' = changed.cache
        /\ tilesManagerCalls' = changed.calls
        /\ lastOp' = [op |-> "changeVisibleTilesStates", tiles |-> tiles]
        /\ lastCall' = NoCall
        /\ UNCHANGED <<currentTime, temporalBatchTables, registeredStyles,
                       missed, revisited>>

Next ==
    \/ \E t \in ProviderTimes : SetCurrentTime(t)
    \/ \E name \in ExtraStyles : RegisterStyle(name)
    \/ \E tileId \in TileIds : ComputeFeaturesStates(tileId)
    \/ \E tileId \in TileIds : TileLoaded(tileId)
    \/ \E tileId \in TileIds : ChangeTileState(tileId)
    \/ \E tiles \in VisibleLists : ChangeVisibleTilesStates(tiles)

Spec == Init /\ [][Next]_vars

----------------------------------------------------------------------------
(* setTileVerticesColor *)

\* an RGB triple is modelled by its name: the function copies triples
\* component by component and never computes with them
Colors == {"red", "green", "blue"}

\* the indexArray argument: null, or an array of vertex indexes
null == [isNull |-> TRUE, indexes |-> <<>>]
IndexArray(indexes) == [isNull |-> FALSE, indexes |-> indexes]

\* lowerBound > i and upperBound < i of line 341; a bound read from an empty
\* array is undefined and both comparisons are false
lowerBoundAbove(array, i) ==
    Len(array.indexes) > 0 /\ array.indexes[1] > i
upperBoundBelow(array, i) ==
    Len(array.indexes) > 0 /\ array.indexes[Len(array.indexes)] < i

\* lines 343-345: the colour the vertex i has before the call
previousColor(mesh, i) ==
    IF mesh.hasColorAttribute THEN mesh.colors[i + 1] ELSE mesh.materialColor

\* lines 339-352: the colour written for the vertex i
vertexColor(mesh, color, array, i) ==
    IF ~array.isNull /\ (lowerBoundAbove(array, i) \/ upperBoundBelow(array, i))
    THEN previousColor(mesh, i)
    ELSE color

\* setTileVerticesColor(tile, newColor, indexArray), mesh being the Mesh
\* lines 321-323 find under the tile: what is thrown, if anything, and the
\* mesh afterwards
setTileVerticesColor(mesh, color, array) ==
    IF ~mesh.loaded
    THEN [outcome |-> "Tile not loaded in view", mesh |-> mesh]
    ELSE IF ~mesh.hasBatchId
    THEN [outcome |-> "Invalid tile", mesh |-> mesh]
    ELSE IF ~mesh.isBufferGeometry
    THEN [outcome |-> "Cannot change vertices color", mesh |-> mesh]
    ELSE IF array.isNull
    THEN [outcome |-> "TypeError", mesh |-> mesh]
    ELSE [outcome |-> "returned",
          mesh |-> [mesh EXCEPT
                      !.colors = [k \in 1..mesh.count |->
                                    vertexColor(mesh, color, array, k - 1)],
                      !.hasColorAttribute = TRUE,
                      !.vertexColors = TRUE]]

\* a mesh of n vertices
Mesh(n, hasColorAttribute, colors, materialColor) ==
    [loaded |-> TRUE, hasBatchId |-> TRUE, isBufferGeometry |-> TRUE,
     count |-> n, hasColorAttribute |-> hasColorAttribute,
     colors |-> colors, materialColor |-> materialColor,
     vertexColors |-> FALSE]

\* the meshes the function is called on: with a colour attribute or with the
\* colour of the material only
ValidMeshes ==
    UNION {{Mesh(n, TRUE, colors, "red") : colors \in [1..n -> Colors]}
           \cup {Mesh(n, FALSE, <<>>, c) : c \in Colors} : n \in 0..MaxVertices}

\* a tile that is not loaded, one without _BATCHID, one that has no
\* BufferGeometry
InvalidMeshes ==
    {[Mesh(1, FALSE, <<>>, "red") EXCEPT !.loaded = FALSE],
     [Mesh(1, FALSE, <<>>, "red") EXCEPT !.hasBatchId = FALSE],
     [Mesh(1, FALSE, <<>>, "red") EXCEPT !.isBufferGeometry = FALSE]}

\* sorted and contiguous index arrays within n vertices, the empty one
\* included
IndexArrays(n) ==
    {IndexArray(<<>>)} \cup
    {IndexArray([k \in 1..(w[2] - w[1] + 1) |-> w[1] + k - 1]) :
        w \in {v \in (0..(n - 1)) \X (0..(n - 1)) : v[1] <= v[2]}}

InitTileColor ==
    /\ pc = "coloring"
    /\ currentTime = 0
    /\ tile \in ValidMeshes \cup InvalidMeshes
    /\ newColor \in Colors
    /\ indexArray \in {null} \cup IndexArrays(tile.count)
    /\ colorOutcome = "pending"
    /\ CullingIdle
    /\ StyleNameIdle
    /\ ProviderIdle
    /\ ControllerIdle
    /\ TileGroupsIdle

\* setTileVerticesColor runs
SetTileVerticesColor ==
    /\ pc = "coloring"
    /\ pc' = "colored"
    /\ LET result == setTileVerticesColor(tile, newColor, indexArray) IN
        /\ colorOutcome' = result.outcome
        /\ tile' = result.mesh
    /\ UNCHANGED <<currentTime, newColor, indexArray, cullingVars,
                   styleNameVars, providerVars, controllerVars,
                   tileGroupsVars>>

NextTileColor == SetTileVerticesColor

SpecTileColor == InitTileColor /\ [][NextTileColor]_vars

----------------------------------------------------------------------------
(* Vocabulary of the properties of culling *)

\* culling has returned
Culled == pc = "culled"

\* the features of BT (index i models the JavaScript index i - 1)
FeatureIndices == 1 .. Len(BT.featureIds)

\* the entries of the returned array that the iteration of feature i pushed
LabelsOf(i) ==
    SubSeq(featuresDisplayStates, pushedAt[i] + 1,
           IF i < Len(BT.featureIds) THEN pushedAt[i + 1]
           ELSE Len(featuresDisplayStates))

\* startDates[i] <= currentTime <= endDates[i]
Exists(i) == BT.startDates[i] <= currentTime /\ currentTime <= BT.endDates[i]

\* featuresTransacs[featureIds[i]] is present
HasRecord(i) == BT.featureIds[i] \in DOMAIN BT.featuresTransacs

RecordOf(i) == BT.featuresTransacs[BT.featureIds[i]]

\* feature i has an asSource transaction and currentTime is in
\* (startDate, startDate + h]; with h = (endDate - startDate) / 2 that is
\* startDate < currentTime and 2 * currentTime <= startDate + endDate
SourceFires(i) ==
    /\ RecordOf(i).asSource # undefined
    /\ RecordOf(i).asSource.startDate < currentTime
    /\ 2 * currentTime <=
          RecordOf(i).asSource.startDate + RecordOf(i).asSource.endDate

\* feature i has an asDestination transaction and currentTime is in
\* (startDate + h', endDate]
DestFires(i) ==
    /\ RecordOf(i).asDestination # undefined
    /\ 2 * currentTime >
          RecordOf(i).asDestination.startDate + RecordOf(i).asDestination.endDate
    /\ currentTime <= RecordOf(i).asDestination.endDate

SourceName(i) == getTransactionStyleName(RecordOf(i).asSource, "")

DestName(i) == getTransactionStyleName(RecordOf(i).asDestination, "")

\* the one-feature batch table of the given feature
TableOf(feature) == BatchTable(<<feature>>)

----------------------------------------------------------------------------
(* Properties of culling, checked under SpecCulling *)

\* C1: culling returns exactly one entry per feature of the batch table,
\* entry i being the label of the feature at index i (the label of feature
\* i is pushed when the array holds the labels of the i features before it).
C1_OneLabelPerFeature ==
    Culled =>
        /\ Len(featuresDisplayStates) = Len(BT.featureIds)
        /\ \A i \in FeatureIndices : pushedAt[i] = i - 1

\* C2: a feature with startDates[i] <= currentTime <= endDates[i] gets the
\* label 'noTransaction', whatever transactions are recorded for it; in the
\* documented scenario (two features living on [0, 10], no transaction,
\* t = 5) the result is [noTransaction, noTransaction].
C2_ExistencePriority ==
    Culled =>
        /\ \A i \in FeatureIndices :
              Exists(i) => LabelsOf(i) = <<"noTransaction">>
        /\ (BT = BatchTable(<<Feature(0, 20, undefined),
                              Feature(0, 20, undefined)>>)
            /\ currentTime = 10)
              => featuresDisplayStates = <<"noTransaction", "noTransaction">>

\* C2 witness: a feature queried at its very endDate, whose asSource
\* transaction is in its first half, is labelled noTransaction.
C2_Witness ==
    /\ Culled
    /\ \E i \in FeatureIndices :
          /\ currentTime = BT.endDates[i]
          /\ HasRecord(i)
          /\ SourceFires(i)
          /\ LabelsOf(i) = <<"noTransaction">>

\* C3: for a feature that does not exist at currentTime and has an asSource
\* transaction T, the feature's own entry is the style name of T when
\* T.startDate < currentTime <= T.startDate + h, and outside that window T
\* gives it no label (the feature is hidden, or labelled by its
\* asDestination transaction alone); a primary 'creation' on [10, 20] gives
\* the source feature 'creation' at t = 14 and t = 15, 'hide' at t = 10 and
\* t = 16.
C3_SourceFirstHalf ==
    Culled =>
        /\ \A i \in FeatureIndices :
              (~Exists(i) /\ HasRecord(i) /\ RecordOf(i).asSource # undefined)
              => IF SourceFires(i)
                 THEN Head(LabelsOf(i)) = SourceName(i)
                 ELSE \/ LabelsOf(i) = <<"hide">>
                      \/ DestFires(i) /\ LabelsOf(i) = <<DestName(i)>>
        /\ BT = TableOf(Feature(0, 18, TransacRecord(Creation1020, undefined)))
              => /\ currentTime \in {28, 30}
                    => featuresDisplayStates = <<"creation">>
                 /\ currentTime \in {20, 32}
                    => featuresDisplayStates = <<"hide">>

\* C3 witness: a feature queried exactly at the midpoint of its asSource
\* transaction carries that transaction's style name.
C3_Witness ==
    /\ Culled
    /\ \E i \in FeatureIndices :
          /\ ~Exists(i) /\ HasRecord(i) /\ SourceFires(i)
          /\ 2 * currentTime =
                RecordOf(i).asSource.startDate + RecordOf(i).asSource.endDate
          /\ LabelsOf(i) = <<SourceName(i)>>

\* C4: for a feature that does not exist at currentTime and has an
\* asDestination transaction T, the label pushed for T is the style name of
\* T when T.startDate + h' < currentTime <= T.endDate, and outside that
\* window T gives it no label; a primary 'creation' on [10, 20] gives the
\* destination feature 'creation' at t = 17 and t = 20, 'hide' at t = 15.
C4_DestSecondHalf ==
    Culled =>
        /\ \A i \in FeatureIndices :
              (~Exists(i) /\ HasRecord(i)
                 /\ RecordOf(i).asDestination # undefined)
              => IF DestFires(i)
                 THEN LabelsOf(i)[Len(LabelsOf(i))] = DestName(i)
                 ELSE \/ LabelsOf(i) = <<"hide">>
                      \/ SourceFires(i) /\ LabelsOf(i) = <<SourceName(i)>>
        /\ BT = TableOf(Feature(42, 60, TransacRecord(undefined, Creation1020)))
              => /\ currentTime \in {34, 40}
                    => featuresDisplayStates = <<"creation">>
                 /\ currentTime = 30
                    => featuresDisplayStates = <<"hide">>

\* C4 witness: a feature queried exactly at the endDate of its asDestination
\* transaction carries that transaction's style name.
C4_Witness ==
    /\ Culled
    /\ \E i \in FeatureIndices :
          /\ ~Exists(i) /\ HasRecord(i) /\ DestFires(i)
          /\ currentTime = RecordOf(i).asDestination.endDate
          /\ LabelsOf(i) = <<DestName(i)>>

\* C5: when both the asSource first half and the asDestination second half
\* of a non-existing feature contain currentTime, the feature's label is
\* the destination transaction's style name, which replaces the source's.
C5_DestinationWins ==
    Culled =>
        \A i \in FeatureIndices :
            (~Exists(i) /\ HasRecord(i) /\ SourceFires(i) /\ DestFires(i))
            => LabelsOf(i) = <<DestName(i)>>

\* C6: a non-existing feature with a transaction record of which neither
\* window contains currentTime is labelled 'hide', also within halfVintage
\* of its own startDate or endDate.
C6_RecordOutOfWindowHides ==
    Culled =>
        \A i \in FeatureIndices :
            (~Exists(i) /\ HasRecord(i) /\ ~SourceFires(i) /\ ~DestFires(i))
            => LabelsOf(i) = <<"hide">>

\* C6 witness: a feature whose record holds no transaction at all, queried
\* exactly 1.5 before its startDate, is hidden.
C6_Witness ==
    /\ Culled
    /\ \E i \in FeatureIndices :
          /\ HasRecord(i)
          /\ RecordOf(i) = TransacRecord(undefined, undefined)
          /\ currentTime + halfVintage = BT.startDates[i]
          /\ LabelsOf(i) = <<"hide">>

\* C7 as claimed: a feature with no transaction record is labelled
\* 'demolition' for endDates[i] < currentTime <= endDates[i] + 1.5, the
\* upper bound included.
C7_DemolitionUpperInclusive ==
    Culled =>
        \A i \in FeatureIndices :
            (~HasRecord(i) /\ BT.endDates[i] < currentTime
                /\ currentTime <= BT.endDates[i] + halfVintage)
            => LabelsOf(i) = <<"demolition">>

\* C7 as amended: a feature with no transaction record is labelled
\* 'demolition' for endDates[i] < currentTime < endDates[i] + 1.5, and at
\* currentTime = endDates[i] + 1.5 it is labelled 'hide'.
C7_DemolitionUpperExclusive ==
    Culled =>
        \A i \in FeatureIndices :
            ~HasRecord(i) =>
              /\ (BT.endDates[i] < currentTime
                    /\ currentTime < BT.endDates[i] + halfVintage)
                 => LabelsOf(i) = <<"demolition">>
              /\ currentTime = BT.endDates[i] + halfVintage
                 => LabelsOf(i) = <<"hide">>

\* C7 witness: a feature without record queried one unit after its endDate
\* (the last tick inside the window) is labelled demolition.
C7_Witness ==
    /\ Culled
    /\ \E i \in FeatureIndices :
          /\ ~HasRecord(i)
          /\ currentTime = BT.endDates[i] + halfVintage - 1
          /\ LabelsOf(i) = <<"demolition">>

\* C8: a feature with no transaction record is labelled 'creation' for
\* startDates[i] - 1.5 <= currentTime < startDates[i].
C8_CreationWindow ==
    Culled =>
        \A i \in FeatureIndices :
            (~HasRecord(i) /\ BT.startDates[i] - halfVintage <= currentTime
                /\ currentTime < BT.startDates[i])
            => LabelsOf(i) = <<"creation">>

\* C8 witness: a feature without record queried exactly 1.5 before its
\* startDate is labelled creation.
C8_Witness ==
    /\ Culled
    /\ \E i \in FeatureIndices :
          /\ ~HasRecord(i)
          /\ currentTime = BT.startDates[i] - halfVintage
          /\ LabelsOf(i) = <<"creation">>

\* C9: a feature with no transaction record, queried outside its lifespan
\* and outside both vintage windows, is labelled 'hide'; for the lifespan
\* [0, 5]: t = -1 creation, t = 6 demolition, t = -2 hide, t = 7 hide.
C9_OutsideWindowsHides ==
    Culled =>
        /\ \A i \in FeatureIndices :
              (~HasRecord(i)
                 /\ (\/ currentTime < BT.startDates[i] - halfVintage
                     \/ currentTime > BT.endDates[i] + halfVintage))
              => LabelsOf(i) = <<"hide">>
        /\ BT = TableOf(Feature(0, 10, undefined))
              => /\ currentTime = 0 - 2 => featuresDisplayStates = <<"creation">>
                 /\ currentTime = 12 => featuresDisplayStates = <<"demolition">>
                 /\ currentTime = 0 - 4 => featuresDisplayStates = <<"hide">>
                 /\ currentTime = 14 => featuresDisplayStates = <<"hide">>

\* C9 witness: the feature living on [0, 5] queried at t = 7 is hidden.
C9_Witness ==
    /\ Culled
    /\ BT = TableOf(Feature(0, 10, undefined))
    /\ currentTime = 14
    /\ featuresDisplayStates = <<"hide">>

----------------------------------------------------------------------------
(* Properties of getTransactionStyleName, checked under SpecStyleName *)

\* getTransactionStyleName has returned
Named == pc = "named"

RECURSIVE JoinedTypes(_)
\* 'aggregate' followed by '-' and the type of each transaction, in order
JoinedTypes(nested) ==
    IF nested = <<>> THEN "aggregate"
    ELSE JoinedTypes(SubSeq(nested, 1, Len(nested) - 1))
            \o "-" \o nested[Len(nested)].type

\* C10: applied (with the empty accumulator, as culling does) to an
\* aggregate whose nested transactions are all primary, of types p1..pn,
\* getTransactionStyleName returns 'aggregate' followed by '-' pi for each
\* i in order; [creation, demolition] gives 'aggregate-creation-demolition'.
C10_AggregateOfPrimaries ==
    (Named /\ styleName = "" /\ transaction.isAggregate) =>
        /\ (\A k \in 1..Len(transaction.transactions) :
                transaction.transactions[k].isPrimary)
             => returnedStyleName = JoinedTypes(transaction.transactions)
        /\ transaction = AggregateShape(<<PrimaryShape("creation"),
                                          PrimaryShape("demolition")>>)
             => returnedStyleName = "aggregate-creation-demolition"

\* C10 witness: the aggregate of a creation and a demolition has been named
\* 'aggregate-creation-demolition'.
C10_Witness ==
    /\ Named
    /\ styleName = ""
    /\ transaction = AggregateShape(<<PrimaryShape("creation"),
                                      PrimaryShape("demolition")>>)
    /\ returnedStyleName = "aggregate-creation-demolition"

\* C11: applied to a primary transaction, getTransactionStyleName returns
\* its type unchanged, whatever the accumulator argument (the function has no
\* role argument: culling passes the asSource and the asDestination
\* transaction in the same way).
C11_PrimaryReturnsType ==
    (Named /\ transaction.isPrimary) => returnedStyleName = transaction.type

\* C11 witness: a primary demolition reached with the accumulator
\* 'aggregate-creation' has been named 'demolition'.
C11_Witness ==
    /\ Named
    /\ transaction = PrimaryShape("demolition")
    /\ styleName = "aggregate-creation"
    /\ returnedStyleName = "demolition"

----------------------------------------------------------------------------
(* Properties of the provider, checked under Spec *)

\* the states stored for the tile at the current date
StoredStates(tileId) ==
    IF /\ currentTime \in DOMAIN datedTilesDisplayStates
       /\ tileId \in DOMAIN datedTilesDisplayStates[currentTime]
    THEN datedTilesDisplayStates[currentTime][tileId]
    ELSE <<>>

\* the last operation ran computeTileState on each tile of lastOp.tiles
Styled ==
    lastOp.op \in {"tileLoaded", "changeTileState", "changeVisibleTilesStates"}

\* the setStyle calls made for the tile, in the order they were made
SetStyleCallsOf(tileId) ==
    SelectSeq(tilesManagerCalls,
              LAMBDA c : c.fn = "setStyle" /\ c.tileId = tileId)

\* C12: computeTileState never passes an unregistered style name to
\* setStyle: for every entry of the state sequence of a tile there is one
\* setStyle call, with the entry itself when it is a registered name and with
\* 'noTransaction' otherwise.
C12_OnlyRegisteredStylesSet ==
    Styled =>
        \A k \in 1..Len(lastOp.tiles) :
            LET tileId == lastOp.tiles[k]
                states == StoredStates(tileId)
                calls == SetStyleCallsOf(tileId)
            IN  /\ Len(calls) = Len(states)
                /\ \A i \in 1..Len(calls) :
                    /\ calls[i].batchId = i - 1
                    /\ calls[i].style \in registeredStyles
                    /\ calls[i].style =
                          IF states[i] \in registeredStyles
                          THEN states[i] ELSE "noTransaction"

\* C12 witness: tile 1 was styled at the date 16 while the name
\* 'aggregate-creation-demolition' was not registered; its states are
\* hide, modification, aggregate-creation-demolition, hide, undefined and the
\* third setStyle call carries 'noTransaction', the second 'modification'.
C12_Witness ==
    /\ Styled
    /\ lastOp.tiles = <<1>>
    /\ StoredStates(1) = <<"hide", "modification",
                           "aggregate-creation-demolition", "hide",
                           undefinedString>>
    /\ "aggregate-creation-demolition" \notin registeredStyles
    /\ SetStyleCallsOf(1)[2].style = "modification"
    /\ SetStyleCallsOf(1)[3].style = "noTransaction"

\* the transaction is neither primary nor aggregate
Malformed(transac) == ~transac.isPrimary /\ ~transac.isAggregate

\* the positions of the states of the table at the date t that were pushed
\* for a malformed transaction applying at t: by line 135 for an asSource
\* one, by line 147 for an asDestination one
MalformedSlots(bt, t) ==
    LET inWindow == {i \in 1..Len(bt.featureIds) :
                        ~featureExists(bt, i, t) /\ hasTransacRecord(bt, i)}
        recordOf(i) == bt.featuresTransacs[bt.featureIds[i]]
        sourceFires(i) == /\ recordOf(i).asSource # undefined
                          /\ inFirstHalf(recordOf(i).asSource, t)
        destFires(i) == /\ recordOf(i).asDestination # undefined
                        /\ inSecondHalf(recordOf(i).asDestination, t)
    IN  {lengthBefore(bt, t, i) + 1 :
            i \in {j \in inWindow : sourceFires(j)
                                    /\ Malformed(recordOf(j).asSource)}}
        \cup
        {lengthBefore(bt, t, i) + (IF sourceFires(i) THEN 2 ELSE 1) :
            i \in {j \in inWindow : destFires(j)
                                    /\ Malformed(recordOf(j).asDestination)}}

\* the tiles of the last operation whose batch table is loaded, the root
\* apart
StyledLoadedTiles ==
    IF Styled
    THEN {lastOp.tiles[k] : k \in 1..Len(lastOp.tiles)}
            \cap (DOMAIN temporalBatchTables \ {0})
    ELSE {}

\* C13 as stated: a feature whose transaction applying at currentTime is
\* malformed gets the state 'hide', as if no transaction had applied, and is
\* styled 'hide'.
C13_MalformedHidden ==
    \A tileId \in StyledLoadedTiles :
        \A k \in MalformedSlots(temporalBatchTables[tileId], currentTime) :
            /\ StoredStates(tileId)[k] = "hide"
            /\ SetStyleCallsOf(tileId)[k].style = "hide"

\* C13 amended: a malformed transaction applying at currentTime counts as a
\* transaction: the name undefined is pushed as the state, 'hide' is not, and
\* computeTileState, finding the name unregistered, sets the style
\* 'noTransaction'.
C13_MalformedNoTransaction ==
    \A tileId \in StyledLoadedTiles :
        \A k \in MalformedSlots(temporalBatchTables[tileId], currentTime) :
            /\ k <= Len(StoredStates(tileId))
            /\ StoredStates(tileId)[k] = undefinedString
            /\ SetStyleCallsOf(tileId)[k].style = "noTransaction"

\* C13 witness: tile 1 styled at the date 11, in the first half of the
\* malformed asSource transaction of its third feature: the third state is
\* undefined and the third setStyle call carries 'noTransaction'.
C13_Witness ==
    /\ 1 \in StyledLoadedTiles
    /\ currentTime = 22
    /\ MalformedSlots(temporalBatchTables[1], currentTime) = {3}
    /\ StoredStates(1)[3] = undefinedString
    /\ SetStyleCallsOf(1)[3] = SetStyleCall(1, 2, "noTransaction")

\* the tiles that have an entry in the cache at the date t
CachedTiles(cache, t) == IF t \in DOMAIN cache THEN DOMAIN cache[t] ELSE {}

\* the step is a call computeFeaturesStates(tileId)
CallOf(tileId) ==
    /\ lastOp'.op = "computeFeaturesStates"
    /\ lastCall' # NoCall
    /\ lastCall'.tileId = tileId

\* C14: computeFeaturesStates(0) returns an empty sequence without running
\* culling and leaves the cache as it is, whatever the cache holds and
\* whether or not temporalBatchTables[0] exists; no operation ever creates a
\* cache entry for the tile 0.
C14_RootTileSkipped ==
    [][/\ CallOf(0) =>
            /\ lastCall'.states = <<>>
            /\ ~lastCall'.culled
            /\ datedTilesDisplayStates' = datedTilesDisplayStates
       /\ \A t \in DOMAIN datedTilesDisplayStates' :
            0 \notin CachedTiles(datedTilesDisplayStates', t)]_vars

\* C14 witness: computeFeaturesStates(0) has been called and has returned
\* the empty sequence while temporalBatchTables[0] exists and the cache holds
\* entries of other tiles at the current date.
C14_Witness ==
    /\ lastCall # NoCall
    /\ lastCall.tileId = 0
    /\ lastCall.states = <<>>
    /\ 0 \in DOMAIN temporalBatchTables
    /\ CachedTiles(datedTilesDisplayStates, currentTime) = {1, 2}

\* C15: a call of computeFeaturesStates that directly follows a call for the
\* same tile at the same currentTime returns an equal sequence; and a call
\* that finds a cache entry for (currentTime, tileId) returns that entry,
\* does not run culling and leaves the cache unchanged.
C15_Memoized ==
    [][/\ ( /\ lastOp.op = "computeFeaturesStates"
            /\ lastCall # NoCall
            /\ CallOf(lastCall.tileId)
            /\ lastCall'.time = lastCall.time )
          => lastCall'.states = lastCall.states
       /\ \A tileId \in CachedTiles(datedTilesDisplayStates, currentTime) :
            CallOf(tileId) =>
                /\ lastCall'.states =
                      datedTilesDisplayStates[currentTime][tileId]
                /\ ~lastCall'.culled
                /\ datedTilesDisplayStates' = datedTilesDisplayStates]_vars

\* C15 witness: computeFeaturesStates(1) at the date 16 has returned the five
\* states stored for the tile 1 without running culling.
C15_Witness ==
    /\ lastCall # NoCall
    /\ lastCall.tileId = 1
    /\ lastCall.time = 32
    /\ ~lastCall.culled
    /\ Len(lastCall.states) = 5
    /\ lastCall.states = StoredStates(1)

\* C16: computeFeaturesStates called for a tile other than the root that has
\* neither a cache entry at currentTime nor a batch table returns an empty
\* result and leaves the cache unchanged, so that no date of the cache ever
\* has an empty map; a later call at the same currentTime, the batch table
\* being present by then, returns the result of culling.
C16_MissingBatchTable ==
    [][/\ \A tileId \in TileIds \ {0} :
            ( /\ CallOf(tileId)
              /\ tileId \notin CachedTiles(datedTilesDisplayStates,
                                           currentTime)
              /\ tileId \notin DOMAIN temporalBatchTables )
            => /\ lastCall'.states = <<>>
               /\ datedTilesDisplayStates' = datedTilesDisplayStates
       /\ \A t \in DOMAIN datedTilesDisplayStates' :
            CachedTiles(datedTilesDisplayStates', t) # {}
       /\ \A tileId \in missed \cap DOMAIN temporalBatchTables :
            CallOf(tileId) =>
                /\ lastCall'.time = currentTime
                /\ lastCall'.states =
                      culling(temporalBatchTables[tileId], currentTime)]_vars

\* C16 witness: computeFeaturesStates(1) returned an empty result at the
\* current date while the tile 1 had no batch table, and the last call, made
\* after the tile was loaded, has returned the states culling gives.
C16_Witness ==
    /\ lastCall # NoCall
    /\ lastCall.tileId = 1
    /\ lastCall.afterMiss
    /\ 1 \in DOMAIN temporalBatchTables
    /\ lastCall.states = culling(TransactionsTable, currentTime)
    /\ Len(lastCall.states) >= 4

\* C17: no step (a change of currentTime, a tile-loaded event, a call of
\* computeFeaturesStates, changeTileState or changeVisibleTilesStates) removes
\* or changes an entry of the cache; and after currentTime has been set back
\* to a date that has entries, computeFeaturesStates returns the entry stored
\* for that date.
C17_WriteOnce ==
    [][/\ \A t \in DOMAIN datedTilesDisplayStates :
            \A tileId \in DOMAIN datedTilesDisplayStates[t] :
                /\ tileId \in CachedTiles(datedTilesDisplayStates', t)
                /\ datedTilesDisplayStates'[t][tileId] =
                      datedTilesDisplayStates[t][tileId]
       /\ \A tileId \in revisited :
            CallOf(tileId) =>
                /\ tileId \in CachedTiles(datedTilesDisplayStates,
                                          currentTime)
                /\ lastCall'.states =
                      datedTilesDisplayStates[currentTime][tileId]]_vars

\* C17 witness: the cache holds the states of the tile 1 at the dates 11 and
\* 16; currentTime has been set back to 11 and computeFeaturesStates(1) has
\* returned the four states stored for 11.
C17_Witness ==
    /\ lastCall # NoCall
    /\ lastCall.tileId = 1
    /\ lastCall.revisit
    /\ currentTime = 22
    /\ 1 \in CachedTiles(datedTilesDisplayStates, 32)
    /\ 1 \in CachedTiles(datedTilesDisplayStates, 22)
    /\ lastCall.states = datedTilesDisplayStates[22][1]
    /\ lastCall.states = <<"creation", "hide", undefinedString, "hide">>

\* the position of the tile among the tiles of the last operation
PositionOf(tileId) ==
    CHOOSE k \in 1..Len(lastOp.tiles) : lastOp.tiles[k] = tileId

\* all calls of the last operation but the last one are setStyle calls, made
\* tile after tile in the order of lastOp.tiles: for each tile one call per
\* stored state, in the order of the states
SetStylesThenOne ==
    LET n == Len(tilesManagerCalls) IN
    /\ n >= 1
    /\ \A k \in 1..(n - 1) :
        /\ tilesManagerCalls[k].fn = "setStyle"
        /\ \E j \in 1..Len(lastOp.tiles) :
                lastOp.tiles[j] = tilesManagerCalls[k].tileId
    /\ \A k1, k2 \in 1..(n - 1) :
        k1 < k2 => PositionOf(tilesManagerCalls[k1].tileId)
                      <= PositionOf(tilesManagerCalls[k2].tileId)
    /\ \A j \in 1..Len(lastOp.tiles) :
        LET calls == SetStyleCallsOf(lastOp.tiles[j]) IN
        /\ Len(calls) = Len(StoredStates(lastOp.tiles[j]))
        /\ \A i \in 1..Len(calls) : calls[i].batchId = i - 1

\* C18: changeVisibleTilesStates makes the setStyle calls of computeTileState
\* for every visible tile, in the order getVisibleTiles returned them, and
\* then calls applyStyles: once, as the last call, also when no tile is
\* visible; it never calls applyStyleToTile.
C18_OneBatchedApply ==
    lastOp.op = "changeVisibleTilesStates" =>
        /\ SetStylesThenOne
        /\ tilesManagerCalls[Len(tilesManagerCalls)] = ApplyStylesCall

\* C18 witness: the tiles 2 and 1, both loaded, were visible at the date 11:
\* two setStyle calls for the tile 2, four for the tile 1, then applyStyles.
C18_Witness ==
    /\ lastOp.op = "changeVisibleTilesStates"
    /\ lastOp.tiles = <<2, 1>>
    /\ currentTime = 22
    /\ Len(tilesManagerCalls) = 7
    /\ tilesManagerCalls[2] = SetStyleCall(2, 1, "hide")
    /\ tilesManagerCalls[3] = SetStyleCall(1, 0, "creation")
    /\ tilesManagerCalls[7] = ApplyStylesCall

\* C19: changeTileState (called directly or as the tile-loaded listener)
\* makes the setStyle calls of computeTileState for the tile and then calls
\* applyStyleToTile(tileId, {updateView: false}): once, as the last call,
\* also when the state sequence is empty; it never calls applyStyles.
C19_OneTileApply ==
    lastOp.op \in {"changeTileState", "tileLoaded"} =>
        /\ SetStylesThenOne
        /\ tilesManagerCalls[Len(tilesManagerCalls)] =
              [fn |-> "applyStyleToTile", tileId |-> lastOp.tiles[1],
               batchId |-> 0 - 1, style |-> "", updateView |-> FALSE]

\* C19 witness: changeTileState was called for the tile 1 before its batch
\* table was loaded: no setStyle call, one applyStyleToTile call.
C19_Witness ==
    /\ lastOp.op = "changeTileState"
    /\ lastOp.tiles = <<1>>
    /\ 1 \notin DOMAIN temporalBatchTables
    /\ tilesManagerCalls = <<ApplyStyleToTileCall(1)>>

----------------------------------------------------------------------------
(* Properties of setTileVerticesColor, checked under SpecTileColor *)

\* setTileVerticesColor has run
Colored == pc = "colored"

\* the tile passes the tests of lines 316-331
ValidTile == tile.loaded /\ tile.hasBatchId /\ tile.isBufferGeometry

\* C20: setTileVerticesColor called on a valid tile without an indexArray
\* (the default, null) returns without throwing and every vertex of the tile
\* has the new colour.
C20_DefaultColorsAll ==
    (Colored /\ ValidTile /\ indexArray = null) =>
        /\ colorOutcome = "returned"
        /\ tile.hasColorAttribute
        /\ \A k \in 1..tile.count : tile.colors[k] = newColor

----------------------------------------------------------------------------
(* Further properties of culling, checked under SpecCulling *)

\* feature i is the source and feature j the destination of one transaction,
\* neither exists at currentTime, and no other transaction labels them (i = j
\* when one feature has the transaction on both sides)
SharedTransaction(i, j) ==
    /\ ~Exists(i) /\ ~Exists(j)
    /\ HasRecord(i) /\ HasRecord(j)
    /\ RecordOf(i).asSource # undefined
    /\ RecordOf(j).asDestination = RecordOf(i).asSource
    /\ i # j => /\ RecordOf(i).asDestination = undefined
                /\ RecordOf(j).asSource = undefined

\* C21: for a transaction T that is the asSource transaction of one feature
\* and the asDestination transaction of another (or of the same), both in
\* the transaction case: at every currentTime in (T.startDate, T.endDate]
\* exactly one of the two has the entry named after T, the other is hidden
\* (one feature on both sides has that entry once); at every other
\* currentTime, T.startDate included, both are hidden.  The window is empty
\* for a transaction of duration zero, which so never labels a feature.
C21_HalvesPartition ==
    Culled =>
        \A i, j \in FeatureIndices :
            SharedTransaction(i, j) =>
                LET T == RecordOf(i).asSource
                    named == <<SourceName(i)>>
                IN  IF T.startDate < currentTime /\ currentTime <= T.endDate
                    THEN IF i = j
                         THEN LabelsOf(i) = named
                         ELSE \/ LabelsOf(i) = named
                                 /\ LabelsOf(j) = <<"hide">>
                              \/ LabelsOf(i) = <<"hide">>
                                 /\ LabelsOf(j) = named
                    ELSE /\ LabelsOf(i) = <<"hide">>
                         /\ LabelsOf(j) = <<"hide">>

\* C21 witness: the creation on [10, 20] is the asSource transaction of the
\* first feature and the asDestination transaction of the second; at t = 15.5
\* the source is hidden and the destination carries 'creation'.
C21_Witness ==
    /\ Culled
    /\ Len(BT.featureIds) = 2
    /\ SharedTransaction(1, 2)
    /\ RecordOf(1).asSource = Creation1020
    /\ currentTime = 31
    /\ LabelsOf(1) = <<"hide">>
    /\ LabelsOf(2) = <<"creation">>

----------------------------------------------------------------------------
(* Further properties of getTransactionStyleName, checked under
   SpecStyleName *)

RECURSIVE WithTypes(_, _)
\* the prefix followed by '-' and the type of each transaction, in order
WithTypes(prefix, primaries) ==
    IF primaries = <<>> THEN prefix
    ELSE WithTypes(prefix, SubSeq(primaries, 1, Len(primaries) - 1))
            \o "-" \o primaries[Len(primaries)].type

RECURSIVE PrefixRepeated(_)
\* the name of an aggregate of primary transactions and of aggregates of
\* primary transactions: a primary adds '-' and its type; a nested aggregate
\* adds '-' and then the whole name accumulated so far followed by the types
\* of its own transactions
PrefixRepeated(nested) ==
    IF nested = <<>> THEN "aggregate"
    ELSE LET accumulated ==
                PrefixRepeated(SubSeq(nested, 1, Len(nested) - 1))
             last == nested[Len(nested)]
         IN  IF last.isPrimary
             THEN accumulated \o "-" \o last.type
             ELSE accumulated \o "-"
                    \o WithTypes(accumulated, last.transactions)

\* each nested transaction is primary or an aggregate of primary ones
NestsAggregatesOfPrimaries(transac) ==
    /\ transac.isAggregate
    /\ \A k \in 1..Len(transac.transactions) :
        LET nested == transac.transactions[k] IN
        \/ nested.isPrimary
        \/ /\ nested.isAggregate
           /\ \A m \in 1..Len(nested.transactions) :
                nested.transactions[m].isPrimary

----------------------------------------------------------------------------
(* Further properties of the provider, checked under Spec *)

\* C23: the batch table of a tile being the same at every load, each cache
\* entry stored under (t, tileId) is the result of culling the batch table of
\* that tile with currentTime = t, and what computeFeaturesStates returns for
\* a loaded tile other than the root, from the cache or not, is the result of
\* culling for the current date and that tile.
C23_MemoFaithful ==
    /\ \A t \in DOMAIN datedTilesDisplayStates :
        \A tileId \in DOMAIN datedTilesDisplayStates[t] :
            /\ tileId \in DOMAIN temporalBatchTables
            /\ datedTilesDisplayStates[t][tileId] =
                  culling(temporalBatchTables[tileId], t)
    /\ ( /\ lastCall # NoCall
         /\ lastCall.tileId \in DOMAIN temporalBatchTables \ {0} )
       => /\ lastCall.time = currentTime
          /\ lastCall.states =
                culling(temporalBatchTables[lastCall.tileId], currentTime)

\* C23 witness: the cache holds the states of the tile 2 for the date 16,
\* hide and hide, and for the date 11, demolition and hide; currentTime is 11
\* and computeFeaturesStates(2) has returned the entry of 11 from the cache.
C23_Witness ==
    /\ lastCall # NoCall
    /\ lastCall.tileId = 2
    /\ ~lastCall.culled
    /\ currentTime = 22
    /\ 2 \in CachedTiles(datedTilesDisplayStates, 32)
    /\ datedTilesDisplayStates[32][2] = <<"hide", "hide">>
    /\ 1 \in CachedTiles(datedTilesDisplayStates, 22)
    /\ lastCall.states = <<"demolition", "hide">>

\* the style computeTileState gives to a label
StyleOf(label) ==
    IF label \in registeredStyles THEN label ELSE "noTransaction"

\* C24: for a loaded tile whose batch table has n features, computeTileState
\* makes exactly n setStyle calls, for the indexes 0 .. n - 1 in order, and
\* the style set for the index i is the style of the one label that culling
\* derives from the dates and the transactions of the feature i.
C24_OneStylePerFeature ==
    \A tileId \in StyledLoadedTiles :
        LET bt == temporalBatchTables[tileId]
            calls == SetStyleCallsOf(tileId)
        IN  /\ Len(calls) = Len(bt.featureIds)
            /\ \A i \in 1..Len(bt.featureIds) :
                /\ calls[i].batchId = i - 1
                /\ Len(cullingFeature(bt, i, currentTime)) = 1
                /\ calls[i].style =
                      StyleOf(cullingFeature(bt, i, currentTime)[1])

\* the five names the provider expects to be registered
CanonicalStyles ==
    {"noTransaction", "creation", "demolition", "modification", "hide"}

\* C25: the constructor has registered the five canonical styles when it
\* subscribes to the tile-loaded event, and subscribes updateTileExtensionModel
\* before changeTileState; so, the listeners running in the order of their
\* registration, at every tile-loaded event the batch table of the tile is
\* there when its states are computed: the tile (the root apart) gets its
\* entry in the cache, the result of culling, and one setStyle call for each
\* of its states.
C25_UpdateBeforeCompute ==
    /\ Len(tileLoadedListeners) = 2
    /\ tileLoadedListeners[1].callback = "updateTileExtensionModel"
    /\ tileLoadedListeners[2].callback = "changeTileState"
    /\ \A k \in 1..Len(tileLoadedListeners) :
        CanonicalStyles \subseteq tileLoadedListeners[k].registeredThen
    /\ lastOp.op = "tileLoaded" =>
        LET tileId == lastOp.tiles[1] IN
        /\ tileId \in DOMAIN temporalBatchTables
        /\ tileId # 0 =>
            /\ tileId \in CachedTiles(datedTilesDisplayStates, currentTime)
            /\ StoredStates(tileId) =
                  culling(temporalBatchTables[tileId], currentTime)
            /\ StoredStates(tileId) # <<>>
            /\ Len(SetStyleCallsOf(tileId)) = Len(StoredStates(tileId))

\* C25 witness: the first tile-loaded event, for the tile 1 at the date 11:
\* its batch table is the only one, its four states are in the cache and
\* the calls are four setStyle calls and applyStyleToTile.
C25_Witness ==
    /\ lastOp.op = "tileLoaded"
    /\ lastOp.tiles = <<1>>
    /\ currentTime = 22
    /\ DOMAIN temporalBatchTables = {1}
    /\ DOMAIN datedTilesDisplayStates = {22}
    /\ Len(StoredStates(1)) = 4
    /\ Len(tilesManagerCalls) = 5

----------------------------------------------------------------------------
(* TemporalController: the building version shown for the current date *)
(*                                                                         *)
(* A building version is named by its index in buildingVersions (0-based,  *)
(* as in the code); buildingVersions and buildingDates have the same       *)
(* length.  Dates are whole numbers (years).  The positions of the         *)
(* versions and the DOM elements are left out: no branch reads them.       *)

\* the longest buildingVersions / buildingDates array
MaxVersions == 2

\* the dates a user can select and the dates of the versions: 0 .. MaxYear
MaxYear == 4

\* this.currentVersion = null
noVersion == -1

\* the indexes of buildingVersions
versionIndices(c) == 0 .. (Len(c.buildingDates) - 1)

RECURSIVE versionIndexLoop(_, _, _)
\* this.buildingDates.forEach((element, index) => { if (this.currentDate >=
\* element) this.currentVersionIndex = index; }), from the element k on
versionIndexLoop(c, k, index) ==
    IF k > Len(c.buildingDates) THEN index
    ELSE versionIndexLoop(c, k + 1,
            IF c.currentDate >= c.buildingDates[k] THEN k - 1 ELSE index)

RECURSIVE syncBuildingVersionToCurrentDate(_, _, _)
RECURSIVE toggleConcurrentView(_, _)

\* syncBuildingVersionToCurrentDate(forceSync): the controller and the scene
\* afterwards
syncBuildingVersionToCurrentDate(c, sc, forceSync) ==
    IF ~c.enabled \/ ~c.useBuildings
    THEN [controller |-> c, scene |-> sc]
    ELSE IF c.isInConcurrentView
    THEN toggleConcurrentView(c, sc)
    ELSE LET index == versionIndexLoop(c, 1, c.currentVersionIndex)
             found == [c EXCEPT !.currentVersionIndex = index]
         IN  IF index = c.lastVersionIndex /\ ~forceSync
             THEN [controller |-> found, scene |-> sc]
             ELSE [controller |->
                     [found EXCEPT
                        !.currentVersion =
                            IF index \in versionIndices(c) THEN index ELSE @,
                        !.lastVersionIndex = index],
                   scene |-> (sc \ versionIndices(c))
                             \cup ({index} \cap versionIndices(c))]

\* toggleConcurrentView(): the controller and the scene afterwards
toggleConcurrentView(c, sc) ==
    IF ~c.enabled \/ ~c.useBuildings
    THEN [controller |-> c, scene |-> sc]
    ELSE LET toggled == [c EXCEPT !.isInConcurrentView = ~@] IN
         IF toggled.isInConcurrentView
         THEN [controller |-> toggled,
               scene |-> (sc \ {c.currentVersion}) \cup versionIndices(c)]
         ELSE syncBuildingVersionToCurrentDate(toggled, sc, TRUE)

\* changeDate(date): date is a Date
changeDate(c, sc, date) ==
    syncBuildingVersionToCurrentDate([c EXCEPT !.currentDate = date], sc,
                                     FALSE)

\* a record of the controller and the scene, with no exception thrown
returned(result) ==
    [controller |-> result.controller, scene |-> result.scene,
     thrown |-> FALSE]

\* changeDate(this.buildingDates[index]) with the JavaScript index given:
\* out of the array the element is undefined and date.getFullYear() throws
\* a TypeError before anything is assigned
changeDateToElement(c, sc, index) ==
    IF index \in versionIndices(c)
    THEN returned(changeDate(c, sc, c.buildingDates[index + 1]))
    ELSE [controller |-> c, scene |-> sc, thrown |-> TRUE]

\* goToNextDate()
goToNextDate(c, sc) ==
    IF ~c.enabled \/ ~c.useBuildings
    THEN [controller |-> c, scene |-> sc, thrown |-> FALSE]
    ELSE IF c.currentVersionIndex = Len(c.buildingDates) - 1
    THEN [controller |-> c, scene |-> sc, thrown |-> FALSE]
    ELSE changeDateToElement(c, sc, c.currentVersionIndex + 1)

\* goToPreviousDate()
goToPreviousDate(c, sc) ==
    IF ~c.enabled \/ ~c.useBuildings
    THEN [controller |-> c, scene |-> sc, thrown |-> FALSE]
    ELSE IF c.currentVersionIndex = 0
    THEN [controller |-> c, scene |-> sc, thrown |-> FALSE]
    ELSE changeDateToElement(c, sc, c.currentVersionIndex - 1)

\* initialize(): called when the models are loaded
initialize(c, sc) ==
    syncBuildingVersionToCurrentDate(
        [c EXCEPT !.useBuildings = Len(c.buildingDates) # 0,
                  !.enabled = TRUE],
        sc, TRUE)

\* the buildingDates arrays of the options: none, or one date per version,
\* in any order
BuildingDates == SeqsUpTo(1..(MaxYear - 1), MaxVersions)

\* new TemporalController(view, options)
TemporalController(buildingDates, startDate) ==
    [buildingDates |-> buildingDates,
     currentDate |-> startDate,
     currentVersion |-> noVersion,
     currentVersionIndex |-> -1,
     lastVersionIndex |-> -2,
     enabled |-> FALSE,
     isInConcurrentView |-> FALSE,
     useBuildings |-> FALSE]

\* the controller is constructed; the loaded versions may be in the scene
InitController ==
    /\ pc = "controller"
    /\ currentTime = 0
    /\ \E buildingDates \in BuildingDates, startDate \in 0..MaxYear :
        /\ controller = TemporalController(buildingDates, startDate)
        /\ scene \in SUBSET versionIndices(controller)
    /\ controllerOutcome = [op |-> "constructor", thrown |-> FALSE]
    /\ CullingIdle
    /\ StyleNameIdle
    /\ ProviderIdle
    /\ ColorIdle
    /\ TileGroupsIdle

\* a step of the controller leaves the rest of the state alone
ControllerStep(op, result) ==
    /\ controller' = result.controller
    /\ scene' = result.scene
    /\ controllerOutcome' = [op |-> op, thrown |-> result.thrown]
    /\ UNCHANGED <<pc, currentTime, cullingVars, styleNameVars, providerVars,
                   colorVars, tileGroupsVars>>

\* the event allModelsLoaded
Initialize ==
    /\ pc = "controller"
    /\ ~controller.enabled
    /\ ControllerStep("initialize", returned(initialize(controller, scene)))

\* timeSelection() / timeSelectionSlider() with a valid date in the input:
\* nothing happens unless the controller is enabled
ChangeDate(date) ==
    /\ pc = "controller"
    /\ ControllerStep("changeDate",
        IF ~controller.enabled
        THEN [controller |-> controller, scene |-> scene, thrown |-> FALSE]
        ELSE returned(changeDate(controller, scene, date)))

\* mousedown on timeNextButton
GoToNextDate ==
    /\ pc = "controller"
    /\ ControllerStep("goToNextDate", goToNextDate(controller, scene))

\* mousedown on timePreviousButton
GoToPreviousDate ==
    /\ pc = "controller"
    /\ ControllerStep("goToPreviousDate",
                      goToPreviousDate(controller, scene))

\* mousedown on timeConcurrentView
ToggleConcurrentView ==
    /\ pc = "controller"
    /\ ControllerStep("toggleConcurrentView",
                      returned(toggleConcurrentView(controller, scene)))

NextController ==
    \/ Initialize
    \/ \E date \in 0..MaxYear : ChangeDate(date)
    \/ GoToNextDate
    \/ GoToPreviousDate
    \/ ToggleConcurrentView

SpecController == InitController /\ [][NextController]_vars

\* the versions whose date is not after the current date
VersionsInDate ==
    {i \in versionIndices(controller) :
        controller.buildingDates[i + 1] <= controller.currentDate}

\* the greatest index of a non-empty set of indexes
LastOf(S) == CHOOSE i \in S : \A j \in S : j <= i

\* the controller is enabled, uses buildings, is not in concurrent view, and
\* the last call was a change of date that returned
DateChanged ==
    /\ pc = "controller"
    /\ controller.enabled
    /\ controller.useBuildings
    /\ ~controller.isInConcurrentView
    /\ controllerOutcome.op \in
            {"changeDate", "goToNextDate", "goToPreviousDate"}

\* C26: after changeDate, goToNextDate or goToPreviousDate, the controller
\* enabled, using buildings and not in concurrent view, currentVersionIndex
\* is the last i with buildingDates[i] <= currentDate and the version i is
\* the only one in the scene; when currentDate precedes every building date
\* the index names no version and no version is in the scene.
C26_VersionFollowsDate ==
    DateChanged =>
        IF VersionsInDate = {}
        THEN /\ controller.currentVersionIndex \notin
                    versionIndices(controller)
             /\ scene = {}
        ELSE /\ controller.currentVersionIndex = LastOf(VersionsInDate)
             /\ scene = {LastOf(VersionsInDate)}

----------------------------------------------------------------------------
(* createTileGroups: the groups of the geometry of a tile *)
(*                                                                         *)
(* A range is the array [start, count]: the tuple <<start, count>>, r[1]   *)
(* for the JavaScript r[0] and r[2] for r[1].  A group is what addGroup    *)
(* pushes: start, count, materialIndex.  Materials are named by strings.   *)

\* the longest ranges array
MaxRanges == 2

\* geometry.addGroup(start, count, materialIndex)
addGroup(groups, start, count, materialIndex) ==
    Append(groups, [start |-> start, count |-> count,
                    materialIndex |-> materialIndex])

\* sortByStart with a fault: the array is left in the order given
sortByStartNever(rs) == rs

\* the sorted array with one more range, after the ranges that do not start
\* later (the sort is stable)
insertByStart(sorted, r) ==
    LET before == Cardinality({k \in DOMAIN sorted : sorted[k][1] <= r[1]})
    IN  SubSeq(sorted, 1, before) \o <<r>>
        \o SubSeq(sorted, before + 1, Len(sorted))

RECURSIVE sortFrom(_, _, _)
sortFrom(rs, k, sorted) ==
    IF k > Len(rs) THEN sorted
    ELSE sortFrom(rs, k + 1, insertByStart(sorted, rs[k]))

\* ranges.sort((a, b) => a[0] - b[0])
sortByStart(rs) == sortFrom(rs, 1, <<>>)

RECURSIVE rangeGroups(_, _, _)
\* for (let range of ranges) addGroup(range[0], range[1], 1), from the
\* range k on
rangeGroups(rs, k, groups) ==
    IF k > Len(rs) THEN groups
    ELSE rangeGroups(rs, k + 1, addGroup(groups, rs[k][1], rs[k][2], 1))

\* if (ranges[0][0] > 0) addGroup(0, ranges[0][0], 0)
leadingGap(rs, groups) ==
    IF rs[1][1] > 0 THEN addGroup(groups, 0, rs[1][1], 0) ELSE groups

RECURSIVE gapLoop(_, _, _)
\* for (let i = 0; i < ranges.length - 1; ++i): the gap between the range
\* i and the next one, from i = k - 1 on
gapLoop(rs, k, groups) ==
    IF k > Len(rs) - 1 THEN groups
    ELSE LET start == rs[k][1] + rs[k][2]
             count == rs[k + 1][1] - start
         IN  gapLoop(rs, k + 1,
                     IF count > 0 THEN addGroup(groups, start, count, 0)
                     ELSE groups)

\* the gap after the last range
trailingGap(rs, total, groups) ==
    LET start == rs[Len(rs)][1] + rs[Len(rs)][2] IN
    IF start < total THEN addGroup(groups, start, total - start, 0)
    ELSE groups

\* createTileGroups(tile, groupColor, groupOpacity, ranges): the mesh and the
\* ranges array afterwards
createTileGroups(m, rs) ==
    IF Len(rs) > 0
    THEN LET sorted == sortByStart(rs) IN
         [mesh |-> [m EXCEPT
                      !.material = <<m.material[1], "MeshLambertMaterial">>,
                      !.materialIsArray = TRUE,
                      !.groups = trailingGap(sorted, m.total,
                                    gapLoop(sorted, 1,
                                      leadingGap(sorted,
                                        rangeGroups(sorted, 1, <<>>))))],
          ranges |-> sorted]
    ELSE [mesh |-> [m EXCEPT
                      !.material = <<m.material[1]>>,
                      !.materialIsArray = TRUE,
                      !.groups = addGroup(<<>>, 0, m.total, 0)],
          ranges |-> rs]

\* the mesh of a tile with total vertices: its material is one material or
\* an array of materials, its geometry has groups from an earlier call
TileMeshes ==
    {[total |-> total, groups |-> addGroup(<<>>, 0, total, 1),
      material |-> material, materialIsArray |-> Len(material) > 1]
        : total \in 0..MaxVertices,
          material \in {<<"tileMaterial">>,
                        <<"tileMaterial", "MeshLambertMaterial">>}}

\* the ranges arrays a caller passes: any starts and counts, in any order,
\* overlapping or not
RangesArrays ==
    SeqsUpTo((0..MaxVertices) \X (0..MaxVertices), MaxRanges)

\* createTileGroups is called
InitTileGroups ==
    /\ pc = "grouping"
    /\ currentTime = 0
    /\ tileMesh \in TileMeshes
    /\ ranges \in RangesArrays
    /\ givenRanges = ranges
    /\ CullingIdle
    /\ StyleNameIdle
    /\ ProviderIdle
    /\ ColorIdle
    /\ ControllerIdle

\* createTileGroups runs
CreateTileGroups ==
    /\ pc = "grouping"
    /\ pc' = "grouped"
    /\ LET result == createTileGroups(tileMesh, ranges) IN
        /\ tileMesh' = result.mesh
        /\ ranges' = result.ranges
    /\ UNCHANGED <<currentTime, givenRanges, cullingVars, styleNameVars,
                   providerVars, colorVars, controllerVars>>

NextTileGroups == CreateTileGroups

SpecTileGroups == InitTileGroups /\ [][NextTileGroups]_vars

\* the vertex indexes of a range or of a group
VerticesOf(start, count) == start .. (start + count - 1)

\* the ranges of the claim: each one starts at its first vertex (it has one),
\* lies within [0, total), and no two of them share a vertex
ProperRanges(rs, total) ==
    /\ \A k \in DOMAIN rs :
        /\ rs[k][1] >= 0
        /\ rs[k][2] >= 1
        /\ rs[k][1] + rs[k][2] <= total
    /\ \A j, k \in DOMAIN rs :
        j # k => VerticesOf(rs[j][1], rs[j][2])
                 \cap VerticesOf(rs[k][1], rs[k][2]) = {}

\* the groups that hold the vertex v
GroupsOf(v) ==
    {k \in DOMAIN tileMesh.groups :
        v \in VerticesOf(tileMesh.groups[k].start, tileMesh.groups[k].count)}

\* the vertex v is in one of the given ranges
InGivenRange(v) ==
    \E k \in DOMAIN givenRanges :
        v \in VerticesOf(givenRanges[k][1], givenRanges[k][2])

====
